---- MODULE Spec2Model ----
(***************************************************************************)
(* seed_naveid.py: one PATCH of the document NaveIDPriests/<EMAIL> to the  *)
(* Firestore REST API, then a report on standard output.                   *)
(*                                                                         *)
(* Strings are TLA+ strings; an f-string is a concatenation (\o).  The     *)
(* three non-ASCII glyphs of the banners are written by their code points  *)
(* (U+2705, U+274C, U+1F389).  The program's side is Main_Send and Report; *)
(* the store, the network and the clock are the environment.               *)
(***************************************************************************)
EXTENDS Integers, Sequences, FiniteSets, TLC

VARIABLES
    pc,         \* "ready" | "waiting" | "received" | "done" | "crashed"
    clock,      \* ticks since 2026-11-01T00:00:00Z
    ticks,      \* ticks taken so far (bounds the clock)
    runs,       \* number of invocations of the script so far
    store,      \* the collection: document id -> fields
    request,    \* the request handed to requests.patch in this run
    netlog,     \* the network calls issued in this run, in order
    response,   \* the response returned by requests.patch, or NoResponse
    stdout,     \* the strings printed in this run, one per print call
    exitCode,   \* Running, 0 or 1
    startedAt,  \* clock value at which this run built its payload
    accepted,   \* the store committed this run's write
    prev        \* end of the previous run: [ran, accepted, store]

vars == <<pc, clock, ticks, runs, store, request, netlog, response, stdout,
          exitCode, startedAt, accepted, prev>>

-----------------------------------------------------------------------------
(* Bounds *)

MaxRuns == 2
MaxTicks == 2
TicksPerSecond == 2

Running == 0 - 1

-----------------------------------------------------------------------------
(* String helpers *)

StartsWith(s, t) == Len(s) >= Len(t) /\ SubSeq(s, 1, Len(t)) = t

EndsWith(s, t) == Len(s) >= Len(t) /\ SubSeq(s, Len(s) - Len(t) + 1, Len(s)) = t

Contains(s, t) == \E i \in 0..(Len(s) - Len(t)) : SubSeq(s, i + 1, i + Len(t)) = t

Pad2(n) == IF n < 10 THEN "0" \o ToString(n) ELSE ToString(n)

-----------------------------------------------------------------------------
(* Module constants of the script *)

PROJECT_ID == "navefirebase"

FIREBASE_REST_BASE ==
    "https://firestore.googleapis.com/v1/projects/" \o PROJECT_ID
        \o "/databases/(default)/documents"

EMAIL == "olsenoliver5@gmail.com"

-----------------------------------------------------------------------------
(* Payload construction *)

\* datetime.utcnow().strftime("%Y-%m-%dT%H:%M:%SZ") for an instant t (in
\* ticks) of November 2026: sub-second precision is dropped, every field is
\* zero padded.
strftime(t) ==
    LET secs == t \div TicksPerSecond
        day  == secs \div 86400
        hh   == (secs % 86400) \div 3600
        mm   == (secs % 3600) \div 60
        ss   == secs % 60
    IN  "2026-11-" \o Pad2(day + 1) \o "T" \o Pad2(hh) \o ":" \o Pad2(mm)
            \o ":" \o Pad2(ss) \o "Z"

doc_url_encoded == FIREBASE_REST_BASE \o "/NaveIDPriests/" \o "olsenoliver5%40gmail.com"

doc_url == FIREBASE_REST_BASE \o "/NaveIDPriests/" \o EMAIL

document(now) ==
    [fields |->
        [email       |-> [stringValue |-> EMAIL],
         displayName |-> [stringValue |-> "Oliver Olsen"],
         diocese     |-> [stringValue |-> "Diocese of Philadelphia"],
         status      |-> [stringValue |-> "active"],
         createdAt   |-> [timestampValue |-> strftime(now)]]]

patch_params_masked == {"email", "displayName", "diocese", "status", "createdAt"}

\* Query parameters of the PATCH: none, so no updateMask.fieldPaths.
patch_params == {}

-----------------------------------------------------------------------------
(* The response and its body *)

NoResponse == [status_code |-> 0, text |-> ""]

\* response.json(), for the bodies of Bodies200 and of StoreAccept: an
\* object keeps its "name" member (the only one main reads), "[]" is a list,
\* anything that is not JSON raises JSONDecodeError.
json(text) ==
    LET open  == "{\"name\": \""
        close == "\"}"
    IN  IF StartsWith(text, open) /\ EndsWith(text, close)
             /\ Len(text) >= Len(open) + Len(close)
        THEN [kind |-> "dict",
              value |-> [name |-> SubSeq(text, Len(open) + 1, Len(text) - Len(close))]]
        ELSE IF text = "{}"
        THEN [kind |-> "dict", value |-> [k \in {} |-> ""]]
        ELSE IF text = "[]"
        THEN [kind |-> "list", value |-> [k \in {} |-> ""]]
        ELSE [kind |-> "JSONDecodeError", value |-> [k \in {} |-> ""]]

\* dict.get(key, default)
get(d, key, default) == IF key \in DOMAIN d THEN d[key] ELSE default

-----------------------------------------------------------------------------
(* What main prints *)

Greeting == "Creating NaveIDPriests/" \o EMAIL \o "..."

SuccessBanner == "U+2705 Document created: "

ErrorBanner == "U+274C Error "

RemediationRule == "  match /NaveIDPriests/{doc} { allow read, write: if true; }"

SuccessLines_pending(result) ==
    << SuccessBanner \o get(result, "name", "unknown"),
       "   Email:   " \o EMAIL,
       "   Status:  pending",
       "   Diocese: Diocese of Philadelphia",
       "\nU+1F389 Done! NaveID will now show for this account in iOS Settings." >>

\* The prints of the status_code == 200 branch.
SuccessLines(result) ==
    << SuccessBanner \o get(result, "name", "unknown"),
       "   Email:   " \o EMAIL,
       "   Status:  active",
       "   Diocese: Diocese of Philadelphia",
       "\nU+1F389 Done! NaveID will now show for this account in iOS Settings." >>

RemediationLines ==
    << "\nFirestore rules may be blocking writes to NaveIDPriests.",
       "Add this rule in Firebase Console > Firestore > Rules:",
       RemediationRule >>

ErrorLines_401(resp) ==
    << ErrorBanner \o ToString(resp.status_code) \o ": " \o resp.text >>
        \o (IF resp.status_code = 401 THEN RemediationLines ELSE << >>)

ErrorLines_any4xx(resp) ==
    << ErrorBanner \o ToString(resp.status_code) \o ": " \o resp.text >>
        \o (IF resp.status_code >= 400 /\ resp.status_code < 500
            THEN RemediationLines ELSE << >>)

\* The prints of the else branch.
ErrorLines(resp) ==
    << ErrorBanner \o ToString(resp.status_code) \o ": " \o resp.text >>
        \o (IF resp.status_code = 403 THEN RemediationLines ELSE << >>)

-----------------------------------------------------------------------------
(* The document store (environment) *)

CollectionUrl == FIREBASE_REST_BASE \o "/NaveIDPriests/"

DocIdOf(url) == SubSeq(url, Len(CollectionUrl) + 1, Len(url))

ResourceName(id) ==
    "projects/" \o PROJECT_ID \o "/databases/(default)/documents/NaveIDPriests/" \o id

NameBody(name) == "{\"name\": \"" \o name \o "\"}"

\* Fields of the document after a committed PATCH: a full replace when the
\* request carries no field mask, otherwise only the masked fields change.
Write(st, req) ==
    LET id  == DocIdOf(req.url)
        new == req.json.fields
        old == IF id \in DOMAIN st THEN st[id] ELSE [k \in {} |-> ""]
        kept == DOMAIN old \ req.params
        set  == DOMAIN new \cap req.params
        doc == IF req.params = {}
               THEN new
               ELSE [f \in kept \cup set |-> IF f \in set THEN new[f] ELSE old[f]]
    IN  [d \in DOMAIN st \cup {id} |-> IF d = id THEN doc ELSE st[d]]

OTHER_EMAIL == "fr.brown@example.org"

OtherDoc ==
    [email       |-> [stringValue |-> OTHER_EMAIL],
     displayName |-> [stringValue |-> "Fr. Brown"],
     diocese     |-> [stringValue |-> "Diocese of Trenton"],
     status      |-> [stringValue |-> "active"],
     createdAt   |-> [timestampValue |-> "2026-10-01T08:00:00Z"]]

\* Contents the target document may have before the first run.
PriorDocs ==
    { [email       |-> [stringValue |-> EMAIL],
       displayName |-> [stringValue |-> "O. Olsen"],
       diocese     |-> [stringValue |-> "Diocese of Camden"],
       status      |-> [stringValue |-> "suspended"],
       createdAt   |-> [timestampValue |-> "2026-10-15T12:30:00Z"]],
      [email       |-> [stringValue |-> EMAIL],
       status      |-> [stringValue |-> "active"],
       role        |-> [stringValue |-> "admin"],
       revokedAt   |-> [timestampValue |-> "2026-10-20T00:00:00Z"]],
      [note |-> [stringValue |-> "placeholder"]] }

InitialStores ==
    { [d \in {OTHER_EMAIL} |-> OtherDoc] }
        \cup { [d \in {OTHER_EMAIL, EMAIL} |-> IF d = EMAIL THEN p ELSE OtherDoc] : p \in PriorDocs }

RejectStatuses == {201, 204, 400, 401, 403, 404, 500}

ErrorBodies ==
    { "{\"error\": {\"code\": 7, \"status\": \"PERMISSION_DENIED\"}}",
      "Bad Request" }

\* Bodies a status-200 answer that is not the store's commit may carry.
Bodies200 ==
    { NameBody("projects/p/databases/(default)/documents/NaveIDPriests/x@y.com"),
      "{}", "[]", "<html>Sign in to network</html>" }

StartClocks ==
    { 0,
      59 * TicksPerSecond + (TicksPerSecond - 1),
      86399 * TicksPerSecond + (TicksPerSecond - 1) }

-----------------------------------------------------------------------------
(* Initial state: the script is about to be run for the first time *)

NoRequest ==
    [method |-> "", url |-> "", params |-> {}, json |-> [fields |-> [k \in {} |-> ""]]]

Init ==
    /\ pc = "ready"
    /\ clock \in StartClocks
    /\ ticks = 0
    /\ runs = 1
    /\ store \in InitialStores
    /\ request = NoRequest
    /\ netlog = << >>
    /\ response = NoResponse
    /\ stdout = << >>
    /\ exitCode = Running
    /\ startedAt = 0
    /\ accepted = FALSE
    /\ prev = [ran |-> FALSE, accepted |-> FALSE, store |-> store]

-----------------------------------------------------------------------------
(* The program *)

\* main, from its first print to the call of requests.patch: the greeting,
\* the URL, the payload stamped with the current time, the PATCH sent.
Main_Send ==
    /\ pc = "ready"
    /\ stdout' = Append(stdout, Greeting)
    /\ request' = [method |-> "PATCH", url |-> doc_url, params |-> patch_params,
                   json |-> document(clock)]
    /\ netlog' = Append(netlog, [method |-> "PATCH", url |-> doc_url])
    /\ startedAt' = clock
    /\ pc' = "waiting"
    /\ UNCHANGED <<clock, ticks, runs, store, response, exitCode, accepted, prev>>

Report_retry ==
    /\ pc = "received"
    /\ IF response.status_code = 200
       THEN LET result == json(response.text)
            IN  IF result.kind = "dict"
                THEN /\ stdout' = stdout \o SuccessLines(result.value)
                     /\ pc' = "done"
                     /\ exitCode' = 0
                     /\ UNCHANGED netlog
                ELSE /\ pc' = "crashed"
                     /\ exitCode' = 1
                     /\ UNCHANGED <<stdout, netlog>>
       ELSE IF Len(netlog) < 2
            THEN /\ netlog' = Append(netlog, [method |-> "PATCH", url |-> request.url])
                 /\ pc' = "waiting"
                 /\ UNCHANGED <<stdout, exitCode>>
            ELSE /\ stdout' = stdout \o ErrorLines(response)
                 /\ pc' = "done"
                 /\ exitCode' = 0
                 /\ UNCHANGED netlog
    /\ UNCHANGED <<clock, ticks, runs, store, request, response, startedAt,
                   accepted, prev>>

\* main, from the return of requests.patch to the end of the process: the
\* branch on status_code and its prints.  response.json() raising, or
\* result.get on a value that is not a dict, is caught nowhere: traceback on
\* stderr, exit status 1.  Otherwise main returns and the process exits 0.
Report ==
    /\ pc = "received"
    /\ IF response.status_code = 200
       THEN LET result == json(response.text)
            IN  IF result.kind = "dict"
                THEN /\ stdout' = stdout \o SuccessLines(result.value)
                     /\ pc' = "done"
                     /\ exitCode' = 0
                ELSE /\ pc' = "crashed"
                     /\ exitCode' = 1
                     /\ UNCHANGED stdout
       ELSE /\ stdout' = stdout \o ErrorLines(response)
            /\ pc' = "done"
            /\ exitCode' = 0
    /\ UNCHANGED <<clock, ticks, runs, store, request, netlog, response,
                   startedAt, accepted, prev>>

TransportFailure_caught(committed) ==
    /\ pc = "waiting"
    /\ IF committed
       THEN store' = Write(store, request) /\ accepted' = TRUE
       ELSE UNCHANGED <<store, accepted>>
    /\ stdout' = Append(stdout, ErrorBanner \o "0: ConnectionError")
    /\ pc' = "done"
    /\ exitCode' = 0
    /\ UNCHANGED <<clock, ticks, runs, request, netlog, response, startedAt, prev>>

\* requests.patch raises (connection, DNS or TLS error, with the write
\* committed or not before the connection broke): main has no try, so the
\* exception ends the process with a traceback and exit status 1.
TransportFailure(committed) ==
    /\ pc = "waiting"
    /\ IF committed
       THEN store' = Write(store, request) /\ accepted' = TRUE
       ELSE UNCHANGED <<store, accepted>>
    /\ pc' = "crashed"
    /\ exitCode' = 1
    /\ UNCHANGED <<clock, ticks, runs, request, netlog, response, stdout,
                   startedAt, prev>>

\* The script is run again (if __name__ == "__main__": main()): a new
\* process, nothing carried over but the store.
Invoke ==
    /\ pc \in {"done", "crashed"}
    /\ runs < MaxRuns
    /\ runs' = runs + 1
    /\ prev' = [ran |-> TRUE, accepted |-> accepted, store |-> store]
    /\ pc' = "ready"
    /\ request' = NoRequest
    /\ netlog' = << >>
    /\ response' = NoResponse
    /\ stdout' = << >>
    /\ exitCode' = Running
    /\ startedAt' = 0
    /\ accepted' = FALSE
    /\ UNCHANGED <<clock, ticks, store>>

-----------------------------------------------------------------------------
(* The environment *)

\* The store commits the PATCH and answers 200 with the document's name.
StoreAccept ==
    /\ pc = "waiting"
    /\ request.method = "PATCH"
    /\ store' = Write(store, request)
    /\ accepted' = TRUE
    /\ response' = [status_code |-> 200,
                    text |-> NameBody(ResourceName(DocIdOf(request.url)))]
    /\ pc' = "received"
    /\ UNCHANGED <<clock, ticks, runs, request, netlog, stdout, exitCode,
                   startedAt, prev>>

\* The store answers with a status other than 200; nothing is written.
StoreReject(status, body) ==
    /\ pc = "waiting"
    /\ response' = [status_code |-> status, text |-> body]
    /\ pc' = "received"
    /\ UNCHANGED <<clock, ticks, runs, store, request, netlog, stdout,
                   exitCode, startedAt, accepted, prev>>

\* A status-200 answer that is not the store's commit (a test double, a
\* proxy, a captive portal); nothing is written.
Answer200(body) ==
    /\ pc = "waiting"
    /\ response' = [status_code |-> 200, text |-> body]
    /\ pc' = "received"
    /\ UNCHANGED <<clock, ticks, runs, store, request, netlog, stdout,
                   exitCode, startedAt, accepted, prev>>

\* Time passes.
Tick ==
    /\ ticks < MaxTicks
    /\ clock' = clock + 1
    /\ ticks' = ticks + 1
    /\ UNCHANGED <<pc, runs, store, request, netlog, response, stdout,
                   exitCode, startedAt, accepted, prev>>

Next ==
    \/ Main_Send
    \/ Report
    \/ Invoke
    \/ \E committed \in BOOLEAN : TransportFailure(committed)
    \/ StoreAccept
    \/ \E status \in RejectStatuses, body \in ErrorBodies : StoreReject(status, body)
    \/ \E body \in Bodies200 : Answer200(body)
    \/ Tick

Spec == Init /\ [][Next]_vars

-----------------------------------------------------------------------------
(* Vocabulary of the properties *)

Finished == pc \in {"done", "crashed"}

Responded == response.status_code # 0

OutputContains(t) == \E i \in 1..Len(stdout) : Contains(stdout[i], t)

SuccessBannerPrinted == \E i \in 1..Len(stdout) : StartsWith(stdout[i], SuccessBanner)

ErrorBannerPrinted == \E i \in 1..Len(stdout) : StartsWith(stdout[i], ErrorBanner)

RuleText == "match /NaveIDPriests/{doc} { allow read, write: if true; }"

FiveFields == {"email", "displayName", "diocese", "status", "createdAt"}

Digit(c) ==
    CASE c = "0" -> 0 [] c = "1" -> 1 [] c = "2" -> 2 [] c = "3" -> 3
      [] c = "4" -> 4 [] c = "5" -> 5 [] c = "6" -> 6 [] c = "7" -> 7
      [] c = "8" -> 8 [] c = "9" -> 9

TwoDigits(s, i) == 10 * Digit(SubSeq(s, i, i)) + Digit(SubSeq(s, i + 1, i + 1))

\* Seconds since 2026-11-01T00:00:00Z denoted by an ISO-8601 "Z" timestamp
\* of November 2026.
SecondsOf(ts) ==
    (TwoDigits(ts, 9) - 1) * 86400 + TwoDigits(ts, 12) * 3600
        + TwoDigits(ts, 15) * 60 + TwoDigits(ts, 18)

IsIsoZ(ts) ==
    /\ Len(ts) = 20
    /\ SubSeq(ts, 1, 8) = "2026-11-"
    /\ SubSeq(ts, 11, 11) = "T"
    /\ SubSeq(ts, 14, 14) = ":"
    /\ SubSeq(ts, 17, 17) = ":"
    /\ SubSeq(ts, 20, 20) = "Z"

LastSlash(s) ==
    LET I == {i \in 1..Len(s) : SubSeq(s, i, i) = "/"}
    IN  CHOOSE i \in I : \A j \in I : j <= i

LastSegment(s) == SubSeq(s, LastSlash(s) + 1, Len(s))

SpecExampleName == "projects/p/databases/(default)/documents/NaveIDPriests/x@y.com"

-----------------------------------------------------------------------------
(* Properties *)

\* C1: once the store has committed the PATCH of a run, the document
\* NaveIDPriests/<email> holds exactly the five fields email, displayName,
\* diocese, status and createdAt with the values of that run, createdAt
\* being the second at which the run built its payload, and nothing of the
\* document's prior content remains: the write is a full replace.
C1_FullReplace ==
    accepted =>
        /\ "olsenoliver5@gmail.com" \in DOMAIN store
        /\ LET doc == store["olsenoliver5@gmail.com"]
           IN  /\ DOMAIN doc = FiveFields
               /\ doc.email = [stringValue |-> "olsenoliver5@gmail.com"]
               /\ doc.displayName = [stringValue |-> "Oliver Olsen"]
               /\ doc.diocese = [stringValue |-> "Diocese of Philadelphia"]
               /\ doc.status = [stringValue |-> "active"]
               /\ DOMAIN doc.createdAt = {"timestampValue"}
               /\ IsIsoZ(doc.createdAt.timestampValue)
               /\ SecondsOf(doc.createdAt.timestampValue) = startedAt \div TicksPerSecond

\* A first run has ended with its write committed over a prior document
\* that carried fields outside the five.
C1_Witness ==
    /\ pc = "done"
    /\ accepted
    /\ ~prev.ran
    /\ EMAIL \in DOMAIN prev.store
    /\ "role" \in DOMAIN prev.store[EMAIL]

\* C2: two runs in succession, both committed by the store, leave the store
\* in the state the first run left it in, createdAt included.
C2_Idempotent ==
    (Finished /\ accepted /\ prev.ran /\ prev.accepted) => store = prev.store

\* C3: when the answer has status 200 and its body carries a "name", the
\* output of the run contains that name and the email, status and diocese
\* of the request body of the same run.
C3_Confirmation ==
    \A n \in {SpecExampleName, ResourceName(EMAIL)} :
        (Finished /\ response.status_code = 200 /\ response.text = NameBody(n)) =>
            /\ pc = "done"
            /\ OutputContains(n)
            /\ OutputContains(request.json.fields.email.stringValue)
            /\ OutputContains(request.json.fields.status.stringValue)
            /\ OutputContains(request.json.fields.diocese.stringValue)

\* A run has ended on the 200 answer of the spec's example.
C3_Witness ==
    /\ pc = "done"
    /\ response.status_code = 200
    /\ response.text = NameBody(SpecExampleName)

\* C4: when the answer has status 403, the output of the run contains the
\* status code, the body text and the remediation rule, and no success
\* banner.
C4_Forbidden ==
    (Finished /\ response.status_code = 403) =>
        /\ OutputContains("403")
        /\ OutputContains(response.text)
        /\ OutputContains(RuleText)
        /\ ~SuccessBannerPrinted

\* A run has ended on a 403 answer.
C4_Witness == pc = "done" /\ response.status_code = 403

\* C5: for a status other than 200 and 403 the output contains the status
\* code and the body and not the remediation rule; the rule is in the output
\* of a finished run exactly when the status is 403.
C5_OtherStatus ==
    /\ (Finished /\ Responded /\ response.status_code \notin {200, 403}) =>
            /\ OutputContains(ToString(response.status_code))
            /\ OutputContains(response.text)
            /\ ~OutputContains(RuleText)
    /\ OutputContains(RuleText) => response.status_code = 403
    /\ (Finished /\ response.status_code = 403) => OutputContains(RuleText)

\* A run has ended on a 2xx answer other than 200.
C5_Witness == pc = "done" /\ response.status_code = 201

\* C6: the request of a run is a PATCH whose URL ends in
\* /NaveIDPriests/<email>, the email verbatim, and the document id of that
\* path is the "email" field of the request body.
C6_DocumentId ==
    pc # "ready" =>
        /\ request.method = "PATCH"
        /\ EndsWith(request.url, "/NaveIDPriests/olsenoliver5@gmail.com")
        /\ LastSegment(request.url) = request.json.fields.email.stringValue
        /\ netlog[1] = [method |-> request.method, url |-> request.url]

\* The request is in flight.
C6_Witness == pc = "waiting" /\ Len(netlog) = 1

\* C7: a run issues exactly one network call, a PATCH, whatever the answer:
\* none before the write, none after a response.
C7_SingleRequest ==
    /\ pc = "ready" => netlog = << >>
    /\ pc # "ready" => Len(netlog) = 1 /\ netlog[1].method = "PATCH"

\* A run has ended on a server error without a second call.
C7_Witness == pc = "done" /\ response.status_code = 500 /\ Len(netlog) = 1

\* C8: every run that received an HTTP response, whatever its status, ends
\* normally with exit status 0.
C8_AlwaysExitZero ==
    (Finished /\ Responded) => (pc = "done" /\ exitCode = 0)

\* C9: a transport failure ends the run abnormally with no banner and no
\* remediation text printed; an answer with a status other than 200 is
\* reported on the output and the run ends normally.
C9_Propagation ==
    /\ (Finished /\ ~Responded) =>
            /\ pc = "crashed"
            /\ exitCode = 1
            /\ ~SuccessBannerPrinted
            /\ ~ErrorBannerPrinted
            /\ ~OutputContains(RuleText)
    /\ (Finished /\ Responded /\ response.status_code # 200) =>
            /\ pc = "done"
            /\ exitCode = 0
            /\ ErrorBannerPrinted
            /\ OutputContains(ToString(response.status_code))

\* The PATCH failed in transport and the run is over.
C9_Witness == pc = "crashed" /\ ~Responded /\ Len(netlog) = 1

\* C10: no banner is printed before a response is received; a run that
\* received a response ends with exactly one of the two banners printed, the
\* success banner exactly when the status is 200.
C10_OneBanner ==
    /\ ~Responded => (~SuccessBannerPrinted /\ ~ErrorBannerPrinted)
    /\ (Finished /\ Responded) =>
            /\ SuccessBannerPrinted # ErrorBannerPrinted
            /\ SuccessBannerPrinted <=> response.status_code = 200

====
